---- MODULE Spec2Model ----
(***************************************************************************)
(* Model of the SolarSystem application (src/src/app.ts): per-body scene   *)
(* construction, the label-bob interval timers that share one counter and  *)
(* one handle field, and the hover / click callbacks with the popup-shrink *)
(* timeout.                                                                *)
(*                                                                         *)
(* Every callback of the application runs to completion on one event loop, *)
(* so each action below is one whole callback.  The operators named after  *)
(* the methods of the class take the program state as a record s and       *)
(* return the state the method leaves.                                     *)
(*                                                                         *)
(* Label offsets are counted in steps of 0.01 relative to the value of the *)
(* body's record (labelpositionyAxis).                                     *)
(***************************************************************************)
EXTENDS Integers, Sequences, FiniteSets, TLC

\* ------------------------------------------------------------------ bounds
\* How far (in steps) a label may leave the band 0..Amplitude in the model.
MaxDrift == 1
\* How many hover-exit events are delivered in total.
MaxHoverExits == 2

\* ------------------------------------------------------- program constants
\* labelLoopInc < 5 / labelLoopInc === 5
Amplitude == 5
\* labelLoopInc = 10
CounterTop == 10
\* gearLoopInc < 10 / gearLoopInc === 10
GearAmplitude == 10
\* gearLoopInc = 20
GearTop == 20

\* --------------------------------------------------------------- database
\* Object.keys(database): the keys of public/database.json, in table order.
Keys == <<"box_model_cloud", "only_gear", "popup_model">>

Bodies == {Keys[i] : i \in 1..Len(Keys)}

\* The tables the model is run on, with the fields of a DatabaseRecord that
\* decide control flow: box_model_cloud and only_gear are shown and have any
\* display name, empty or not; popup_model starts hidden and has none.
Tables ==
    {d \in [Bodies -> [name : {"", "Label"}, appearance : BOOLEAN, fileFormat : {"glb"}]] :
        /\ d["popup_model"].name = ""
        /\ \A b \in Bodies : d[b].appearance = (b # "popup_model")}

\* A second table, of two bodies without display names whose keys and file
\* formats can spell the same asset path.
SharedKeys == <<"gear", "gear.low">>

SharedTables ==
    [{SharedKeys[i] : i \in 1..Len(SharedKeys)}
        -> [name : {""}, appearance : BOOLEAN, fileFormat : {"glb", "low.glb"}]]

NoParent == ""
NoHandle == 0
NotLoading == 0

\* Object.keys(database)
ObjectKeys(db) ==
    CHOOSE k \in {Keys, SharedKeys} : {k[i] : i \in 1..Len(k)} = DOMAIN db

VARIABLES
    database,            \* the table, fixed at process start
    started,             \* startedImpl has run
    pc,                  \* per body: "todo", "loading", "done", "failed"
    pending,             \* per body: the container an awaited loadGltf was called on
    actors,              \* per body: the actors created for it, in creation order
    containers,          \* the AssetContainers made so far: their prefabs' source uris
    assets,              \* this.assets: index of the current container
    loads,               \* the uris loadGltf was called with, in call order
    celestialBodies,     \* this.celestialBodies: body name -> CelestialBody
    enabled,             \* per body: model.appearance.enabled
    labelY,              \* per body: label.transform.local.position.y, in steps
    labelLoopInc,        \* this.labelLoopInc
    gearLoopInc,         \* this.gearLoopInc
    intervals,           \* the running setInterval timers: [id, body]
    animationLoopIterval,\* this.animationLoopIterval
    timeouts,            \* the pending setTimeout timers, oldest first
    childBoxTimeout,     \* this.childBoxTimeout
    handlers,            \* the bodies whose click and hover handlers are wired
    hovering,            \* the bodies the pointer has entered and not left
    target,              \* the destination of the latest AnimateTo per actor
    gearPlaying,         \* the only_gear rotation animation is bound and playing
    log,                 \* the bodies createBody logged as failed
    hoverExits           \* how many hover-exit events have been delivered

vars == <<database, started, pc, pending, actors, containers, assets, loads,
          celestialBodies, enabled, labelY, labelLoopInc, gearLoopInc,
          intervals, animationLoopIterval, timeouts, childBoxTimeout,
          handlers, hovering, target, gearPlaying, log, hoverExits>>

\* The mutable program state as one record.
Cur ==
    [pc |-> pc, pending |-> pending, actors |-> actors,
     containers |-> containers, assets |-> assets, loads |-> loads,
     celestialBodies |-> celestialBodies, enabled |-> enabled,
     labelY |-> labelY, labelLoopInc |-> labelLoopInc,
     gearLoopInc |-> gearLoopInc,
     intervals |-> intervals, animationLoopIterval |-> animationLoopIterval,
     timeouts |-> timeouts, childBoxTimeout |-> childBoxTimeout,
     handlers |-> handlers, target |-> target,
     gearPlaying |-> gearPlaying, log |-> log]

Commit(s) ==
    /\ pc' = s.pc
    /\ pending' = s.pending
    /\ actors' = s.actors
    /\ containers' = s.containers
    /\ assets' = s.assets
    /\ loads' = s.loads
    /\ celestialBodies' = s.celestialBodies
    /\ enabled' = s.enabled
    /\ labelY' = s.labelY
    /\ labelLoopInc' = s.labelLoopInc
    /\ gearLoopInc' = s.gearLoopInc
    /\ intervals' = s.intervals
    /\ animationLoopIterval' = s.animationLoopIterval
    /\ timeouts' = s.timeouts
    /\ childBoxTimeout' = s.childBoxTimeout
    /\ handlers' = s.handlers
    /\ target' = s.target
    /\ gearPlaying' = s.gearPlaying
    /\ log' = s.log

\* ------------------------------------------------------------ scene nodes
\* The name Actor.Create gives the actor; it stands for the actor's id.
ActorId(bodyName, node) == bodyName \o "-" \o node

ActorCreate(bodyName, node, parentId) ==
    [name |-> ActorId(bodyName, node), parentId |-> parentId]

\* SceneNodes with obliquity1 parented to position instead of obliquity0.
SceneNodesFlat(bodyName) ==
    << ActorCreate(bodyName, "inclination", NoParent),
       ActorCreate(bodyName, "position", ActorId(bodyName, "inclination")),
       ActorCreate(bodyName, "label", ActorId(bodyName, "position")),
       ActorCreate(bodyName, "obliquity0", ActorId(bodyName, "position")),
       ActorCreate(bodyName, "obliquity1", ActorId(bodyName, "position")) >>

\* The five Actor.Create calls of createBody, in program order.
SceneNodes(bodyName) ==
    << ActorCreate(bodyName, "inclination", NoParent),
       ActorCreate(bodyName, "position", ActorId(bodyName, "inclination")),
       ActorCreate(bodyName, "label", ActorId(bodyName, "position")),
       ActorCreate(bodyName, "obliquity0", ActorId(bodyName, "position")),
       ActorCreate(bodyName, "obliquity1", ActorId(bodyName, "obliquity0")) >>

\* Actor.CreateFromPrefab of createBody.
ModelNode(bodyName) ==
    ActorCreate(bodyName, "body", ActorId(bodyName, "obliquity1"))

\* `assets/${bodyName}.` + facts.fileFormat
Uri(bodyName) == "assets/" \o bodyName \o "." \o database[bodyName].fileFormat

\* A find that also sees the loads still in flight.
FindPrefabInFlight(s, uri) ==
    \/ uri \in s.containers[s.assets]
    \/ \E i \in DOMAIN s.loads : s.loads[i] = uri

\* this.assets.prefabs.find(p => p.source.uri === uri)
FindPrefab(s, uri) == uri \in s.containers[s.assets]

\* -------------------------------------------------------------- animation
\* Math.pow(diameter, 1 / 3) / 25 / 2, in thousandths, for a cube diameter.
ScaleValue(diameter) ==
    LET root == CHOOSE r \in 0..diameter : r * r * r = diameter
    IN  (root * 1000) \div 50

\* MRE.Animation.AnimateTo(context, actor, {destination}): the host tweens
\* the actor towards the destination; only the destination is kept.
AnimateTo(s, actorId, destination) ==
    [s EXCEPT !.target[actorId] = destination]

Registered(s, bodyName) == bodyName \in DOMAIN s.celestialBodies

\* clearInterval(handle): a handle that is not running is ignored.
ClearInterval(s, handle) ==
    [s EXCEPT !.intervals = {t \in @ : t.id # handle}]

\* clearTimeout(handle): a handle that is not pending is ignored.
ClearTimeout(s, handle) ==
    [s EXCEPT !.timeouts = SelectSeq(@, LAMBDA id : id # handle)]

\* The handle setInterval / setTimeout returns: a value different from every
\* handle in use (those of the live timers and the one the field holds).
FreshHandle(inUse) == CHOOSE h \in 1..(Cardinality(inUse) + 1) : h \notin inUse

\* animationPlayPause with the counter set back to zero at every start.
animationPlayPauseReset(s, bodyName) ==
    LET h == FreshHandle({t.id : t \in s.intervals} \cup {s.animationLoopIterval})
    IN  [s EXCEPT !.intervals = @ \cup {[id |-> h, body |-> bodyName]},
                  !.animationLoopIterval = h,
                  !.labelLoopInc = 0]

\* animationPlayPause(bodyName): setInterval, handle stored in the one field.
animationPlayPause(s, bodyName) ==
    LET h == FreshHandle({t.id : t \in s.intervals} \cup {s.animationLoopIterval})
    IN  [s EXCEPT !.intervals = @ \cup {[id |-> h, body |-> bodyName]},
                  !.animationLoopIterval = h]

\* intervalCallback with the jump from 5 to 10 left out.
intervalCallbackNoJump(s, bodyName) ==
    IF s.labelLoopInc < Amplitude
    THEN [s EXCEPT !.labelY[bodyName] = @ + 1, !.labelLoopInc = @ + 1]
    ELSE [s EXCEPT !.labelY[bodyName] = @ - 1,
                   !.labelLoopInc = IF @ - 1 = Amplitude THEN 0 ELSE @ - 1]

\* intervalCallback with the reset from 5 to 0 left out.
intervalCallbackNoReset(s, bodyName) ==
    IF s.labelLoopInc < Amplitude
    THEN [s EXCEPT !.labelY[bodyName] = @ + 1,
                   !.labelLoopInc = IF @ + 1 = Amplitude THEN CounterTop ELSE @ + 1]
    ELSE [s EXCEPT !.labelY[bodyName] = @ - 1, !.labelLoopInc = @ - 1]

\* intervalCallback with the downward reset one step early (at 6, not 5).
intervalCallbackEarlyReset(s, bodyName) ==
    IF s.labelLoopInc < Amplitude
    THEN [s EXCEPT !.labelY[bodyName] = @ + 1,
                   !.labelLoopInc = IF @ + 1 = Amplitude THEN CounterTop ELSE @ + 1]
    ELSE [s EXCEPT !.labelY[bodyName] = @ - 1,
                   !.labelLoopInc = IF @ - 1 = Amplitude + 1 THEN 0 ELSE @ - 1]

\* The callback animationPlayPause gives setInterval, for the body it captured.
intervalCallback(s, bodyName) ==
    IF s.labelLoopInc < Amplitude
    THEN [s EXCEPT !.labelY[bodyName] = @ + 1,
                   !.labelLoopInc = IF @ + 1 = Amplitude THEN CounterTop ELSE @ + 1]
    ELSE [s EXCEPT !.labelY[bodyName] = @ - 1,
                   !.labelLoopInc = IF @ - 1 = Amplitude THEN 0 ELSE @ - 1]

\* boxAnimationEnter(): reading .position of a body that is not registered
\* throws, which ends the callback there.
boxAnimationEnter(s) ==
    LET s1 == ClearInterval(s, s.animationLoopIterval)
        s2 == AnimateTo(s1, ActorId("box_model_cloud", "position"), 100)
        s3 == AnimateTo(s2, ActorId("only_gear", "position"), 350)
    IN  IF ~Registered(s, "box_model_cloud") THEN s1
        ELSE IF ~Registered(s, "only_gear") THEN s2
        ELSE s3

\* The callback boxAnimationExit gives setTimeout.
shrinkCallback(s) ==
    IF ~Registered(s, "popup_model") THEN s
    ELSE AnimateTo(s, ActorId("popup_model", "body"), ScaleValue(0))

\* boxAnimationExit()
boxAnimationExit(s) ==
    LET s1 == AnimateTo(s, ActorId("box_model_cloud", "position"), 0)
        s2 == AnimateTo(s1, ActorId("only_gear", "position"), 250)
        h  == FreshHandle({s.timeouts[i] : i \in DOMAIN s.timeouts}
                          \cup {s.childBoxTimeout})
        s3 == [s2 EXCEPT !.timeouts = Append(@, h), !.childBoxTimeout = h]
    IN  IF ~Registered(s, "box_model_cloud") THEN s
        ELSE IF ~Registered(s, "only_gear") THEN s1
        ELSE s3

\* childModelDisplay()
childModelDisplay(s) ==
    LET s1 == ClearTimeout(s, s.childBoxTimeout)
        s2 == [s1 EXCEPT !.enabled["popup_model"] = TRUE]
        s3 == AnimateTo(s2, ActorId("popup_model", "body"), ScaleValue(1000))
    IN  IF ~Registered(s, "popup_model") THEN s1 ELSE s3

\* buttonBehavior.onHover('exit', ...) of createBody
onHoverExit(s, bodyName) ==
    boxAnimationExit(animationPlayPause(s, bodyName))

\* ----------------------------------------------------------- construction
\* catch (e) { MRE.log.info('app', `createBody failed ${bodyName}, ${e}`) }
Catch(s, bodyName) ==
    [s EXCEPT !.pc[bodyName] = "failed",
              !.pending[bodyName] = NotLoading,
              !.log = @ \cup {bodyName}]

\* this.celestialBodies[bodyName] = {inclination, position, ..., label}
Register(s, bodyName) ==
    LET body == [inclination |-> ActorId(bodyName, "inclination"),
                 position |-> ActorId(bodyName, "position"),
                 obliquity0 |-> ActorId(bodyName, "obliquity0"),
                 obliquity1 |-> ActorId(bodyName, "obliquity1"),
                 model |-> ActorId(bodyName, "body"),
                 label |-> ActorId(bodyName, "label")]
    IN  [s EXCEPT !.celestialBodies =
            [k \in DOMAIN @ \cup {bodyName} |-> IF k = bodyName THEN body ELSE @[k]]]

\* Wire with the test of the display name left out.
WireUnnamed(s, bodyName) ==
    [animationPlayPause(s, bodyName) EXCEPT !.handlers = @ \cup {bodyName}]

\* Wire with the bob loop started twice.
WireTwice(s, bodyName) ==
    IF database[bodyName].name # ""
    THEN [animationPlayPause(animationPlayPause(s, bodyName), bodyName)
             EXCEPT !.handlers = @ \cup {bodyName}]
    ELSE s

\* if (facts.name !== "") { animationPlayPause; onClick; onHover enter/exit }
Wire(s, bodyName) ==
    IF database[bodyName].name # ""
    THEN [animationPlayPause(s, bodyName) EXCEPT !.handlers = @ \cup {bodyName}]
    ELSE s

\* if (bodyName === "only_gear") { this.assets = new AssetContainer; bind }
\* The callback gearAnimation hands to setInterval.  gearAnimation has no
\* caller, so no timer runs it and no action of Next applies it.
gearCallback(s) ==
    IF s.gearLoopInc < GearAmplitude
    THEN LET c == s.gearLoopInc + 1
         IN  [s EXCEPT !.gearLoopInc = IF c = GearAmplitude THEN GearTop ELSE c]
    ELSE LET c == s.gearLoopInc - 1
         IN  [s EXCEPT !.gearLoopInc = IF c = GearAmplitude THEN 0 ELSE c]

\* The only_gear branch of createBody: a new container replaces this.assets
\* and the looping rotation animation is bound to the model, playing.
GearBranch(s, bodyName) ==
    IF bodyName = "only_gear"
    THEN [s EXCEPT !.containers = Append(@, {}),
                   !.assets = Len(s.containers) + 1,
                   !.gearPlaying = TRUE]
    ELSE s

\* createBody from CreateFromPrefab to the end of the try block; modelOk is
\* whether CreateFromPrefab returns rather than throws.
createBodyFinish(s, bodyName, modelOk) ==
    LET s1 == [s EXCEPT !.actors[bodyName] = Append(@, ModelNode(bodyName)),
                        !.enabled[bodyName] = database[bodyName].appearance,
                        !.pending[bodyName] = NotLoading]
        s2 == Register(s1, bodyName)
        s3 == Wire(s2, bodyName)
        s4 == GearBranch(s3, bodyName)
    IN  IF ~modelOk THEN Catch(s, bodyName)
        ELSE [s4 EXCEPT !.pc[bodyName] = "done"]

\* createBody up to the await: created is how many of the five Actor.Create
\* calls return before one throws (5: all of them).
createBody(s, bodyName, created, modelOk) ==
    LET s1 == [s EXCEPT !.actors[bodyName] = SubSeq(SceneNodes(bodyName), 1, created)]
    IN  IF created < Len(SceneNodes(bodyName)) THEN Catch(s1, bodyName)
        ELSE IF FindPrefab(s1, Uri(bodyName))
             THEN createBodyFinish(s1, bodyName, modelOk)
             ELSE [s1 EXCEPT !.loads = Append(@, Uri(bodyName)),
                             !.pending[bodyName] = s.assets,
                             !.pc[bodyName] = "loading"]

\* createSolarSystem with a failure of one body ending the loop.
RECURSIVE createSolarSystemAbort(_, _, _)
createSolarSystemAbort(s, i, outcome) ==
    LET keys == ObjectKeys(database)
    IN  IF i > Len(keys) THEN s
        ELSE LET s1 == createBody(s, keys[i], outcome[keys[i]].created,
                                  outcome[keys[i]].modelOk)
             IN  IF s1.pc[keys[i]] = "failed" THEN s1
                 ELSE createSolarSystemAbort(s1, i + 1, outcome)

\* for (const bodyName of keys) this.createBody(bodyName), from key i on.
RECURSIVE createSolarSystem(_, _, _)
createSolarSystem(s, i, outcome) ==
    LET keys == ObjectKeys(database)
    IN  IF i > Len(keys) THEN s
        ELSE createSolarSystem(
                 createBody(s, keys[i], outcome[keys[i]].created, outcome[keys[i]].modelOk),
                 i + 1, outcome)

\* The awaited loadGltf settles and createBody resumes.  "rejected": the load
\* failed; "empty": it resolved with no prefab, so find(...).prefab throws;
\* "prefab": the prefab was added to the container loadGltf was called on.
loadSettled(s, bodyName, result, modelOk) ==
    LET s1 == [s EXCEPT !.containers[s.pending[bodyName]] = @ \cup {Uri(bodyName)}]
    IN  IF result = "prefab" THEN createBodyFinish(s1, bodyName, modelOk)
        ELSE Catch(s, bodyName)

\* ---------------------------------------------------------------- actions
\* The state the constructor leaves, for a table of the given set.
InitOn(tables) ==
    /\ database \in tables
    /\ started = FALSE
    /\ pc = [b \in DOMAIN database |-> "todo"]
    /\ pending = [b \in DOMAIN database |-> NotLoading]
    /\ actors = [b \in DOMAIN database |-> <<>>]
    /\ containers = <<{}>>
    /\ assets = 1
    /\ loads = <<>>
    /\ celestialBodies = <<>>
    /\ enabled = [b \in DOMAIN database |-> FALSE]
    /\ labelY = [b \in DOMAIN database |-> 0]
    /\ labelLoopInc = 0
    /\ gearLoopInc = 0
    /\ intervals = {}
    /\ animationLoopIterval = NoHandle
    /\ timeouts = <<>>
    /\ childBoxTimeout = NoHandle
    /\ handlers = {}
    /\ hovering = {}
    /\ target = [a \in {ActorId("box_model_cloud", "position"),
                        ActorId("only_gear", "position"),
                        ActorId("popup_model", "body")} |-> -1]
    /\ gearPlaying = FALSE
    /\ log = {}
    /\ hoverExits = 0

Init == InitOn(Tables)

\* How many of createBody's five Actor.Create calls return before one throws:
\* the first throws, the last throws, none throws.
CreateOutcomes == {0, Len(SceneNodes("")) - 1, Len(SceneNodes(""))}

\* started() -> startedImpl() -> createSolarSystem()
Started ==
    /\ ~started
    /\ started' = TRUE
    /\ \E outcome \in [DOMAIN database -> [created : CreateOutcomes, modelOk : BOOLEAN]] :
           Commit(createSolarSystem(Cur, 1, outcome))
    /\ UNCHANGED <<database, hovering, hoverExits>>

LoadSettled(bodyName) ==
    /\ pc[bodyName] = "loading"
    /\ \E result \in {"rejected", "empty", "prefab"}, modelOk \in BOOLEAN :
           Commit(loadSettled(Cur, bodyName, result, modelOk))
    /\ UNCHANGED <<database, started, hovering, hoverExits>>

\* One firing of a running interval timer.
Tick(t) ==
    /\ t \in intervals
    /\ LET s == intervalCallback(Cur, t.body)
       IN  /\ s.labelY[t.body] \in (0 - MaxDrift)..(Amplitude + MaxDrift)
           /\ Commit(s)
    /\ UNCHANGED <<database, started, hovering, hoverExits>>

HoverEnter(bodyName) ==
    /\ bodyName \in handlers \ hovering
    /\ hovering' = hovering \cup {bodyName}
    /\ Commit(boxAnimationEnter(Cur))
    /\ UNCHANGED <<database, started, hoverExits>>

HoverExit(bodyName) ==
    /\ bodyName \in hovering
    /\ hoverExits < MaxHoverExits
    /\ hovering' = hovering \ {bodyName}
    /\ hoverExits' = hoverExits + 1
    /\ Commit(onHoverExit(Cur, bodyName))
    /\ UNCHANGED <<database, started>>

Click(bodyName) ==
    /\ bodyName \in handlers
    /\ Commit(childModelDisplay(Cur))
    /\ UNCHANGED <<database, started, hovering, hoverExits>>

\* The oldest pending popup-shrink timeout fires.
ShrinkTimeout ==
    /\ timeouts # <<>>
    /\ Commit(shrinkCallback([Cur EXCEPT !.timeouts = Tail(@)]))
    /\ UNCHANGED <<database, started, hovering, hoverExits>>

Next ==
    \/ Started
    \/ \E b \in Bodies : LoadSettled(b)
    \/ \E t \in intervals : Tick(t)
    \/ \E b \in Bodies : HoverEnter(b)
    \/ \E b \in Bodies : HoverExit(b)
    \/ \E b \in Bodies : Click(b)
    \/ ShrinkTimeout

Spec == Init /\ [][Next]_vars

\* The application on a table of SharedTables: no body has a display name, so
\* no timer is started and no handler is wired, and construction is all there
\* is to run.
SharedInit == InitOn(SharedTables)

SharedNext ==
    \/ Started
    \/ \E b \in DOMAIN database : LoadSettled(b)

SharedSpec == SharedInit /\ [][SharedNext]_vars

\* The host settles every load and fires every timer that stays due; pointer
\* events are the user's and need not come.
FairSpec ==
    /\ Spec
    /\ WF_vars(Started)
    /\ WF_vars(\E b \in Bodies : LoadSettled(b))
    /\ WF_vars(\E t \in intervals : Tick(t))
    /\ WF_vars(ShrinkTimeout)

\* ------------------------------------------------------------------ claims
BobTimers(bodyName) == {t \in intervals : t.body = bodyName}

Interactive(bodyName) == pc[bodyName] = "done" /\ database[bodyName].name # ""

ConstructionFinished == started /\ \A b \in Bodies : pc[b] \in {"done", "failed"}

NoHoverYet == hovering = {} /\ hoverExits = 0

AllRegistered == DOMAIN celestialBodies = Bodies

PopupModel == ActorId("popup_model", "body")

\* C1: after any sequence of hover-enter / hover-exit events no body has more
\* than one running label-bob timer.
C1_AtMostOneBobTimerPerBody ==
    \A b \in Bodies : Cardinality(BobTimers(b)) <= 1

\* C2: the label offset of every registered body is never below its initial
\* value and never more than 5 steps above it.
C2_LabelWithinAmplitude ==
    \A b \in DOMAIN celestialBodies : labelY[b] >= 0 /\ labelY[b] <= 5

\* C3: when construction of all bodies has finished and no hover event has
\* been delivered, every built body with a non-empty display name has exactly
\* one running label-bob timer.
C3_OneBobTimerAfterConstruction ==
    (ConstructionFinished /\ NoHoverYet)
        => \A b \in Bodies : Interactive(b) => Cardinality(BobTimers(b)) = 1

C3_Witness ==
    /\ ConstructionFinished /\ NoHoverYet
    /\ Cardinality({b \in Bodies : Interactive(b)}) = 2
    /\ labelLoopInc = 3

\* C4: a click on an interactive body leaves no popup-shrink timeout pending,
\* the popup model visible and its scale target the reveal size.  Stated for
\* the clicks made when every body is registered, so that no lookup by name
\* fails.
C4_ClickCancelsEveryShrinkTimeout ==
    [][(AllRegistered /\ \E b \in Bodies : Click(b))
          => /\ timeouts' = <<>>
             /\ enabled'["popup_model"]
             /\ target'[PopupModel] = 200]_vars

\* C5: a failure while building one body is caught and logged and stops no
\* other body from being attempted; the failed body is not registered and
\* has no bob timer and no click or hover handlers.
C5_FailureIsContained ==
    /\ started => \A b \in Bodies : pc[b] # "todo"
    /\ \A b \in Bodies :
          pc[b] = "failed"
              => /\ b \in log
                 /\ b \notin DOMAIN celestialBodies
                 /\ BobTimers(b) = {}
                 /\ b \notin handlers

C5_Witness ==
    /\ pc["box_model_cloud"] = "failed"
    /\ actors["box_model_cloud"] = <<>>
    /\ pc["only_gear"] = "done"
    /\ BobTimers("only_gear") # {}
    /\ pc["popup_model"] = "failed"
    /\ Len(actors["popup_model"]) = 5

\* The parentId of the actor of bodyName with the given id.
ParentOf(bodyName, id) ==
    LET i == CHOOSE j \in DOMAIN actors[bodyName] : actors[bodyName][j].name = id
    IN  actors[bodyName][i].parentId

\* C6: for every registered body inclination has no parent, position's parent
\* is inclination, label's and obliquity0's parent is position, obliquity1's
\* parent is obliquity0 and model's parent is obliquity1; and every actor is
\* created after its parent.
C6_ParentChain ==
    /\ \A b \in DOMAIN celestialBodies :
          LET body == celestialBodies[b]
          IN  /\ ParentOf(b, body.inclination) = NoParent
              /\ ParentOf(b, body.position) = body.inclination
              /\ ParentOf(b, body.label) = body.position
              /\ ParentOf(b, body.obliquity0) = body.position
              /\ ParentOf(b, body.obliquity1) = body.obliquity0
              /\ ParentOf(b, body.model) = body.obliquity1
              /\ Cardinality({body.inclination, body.position, body.label,
                              body.obliquity0, body.obliquity1, body.model}) = 6
    /\ \A b \in Bodies : \A i \in DOMAIN actors[b] :
          \/ actors[b][i].parentId = NoParent
          \/ \E j \in 1..(i - 1) : actors[b][j].name = actors[b][i].parentId

C6_Witness ==
    /\ Cardinality(DOMAIN celestialBodies) = 2
    /\ \E b \in Bodies : pc[b] = "failed" /\ Len(actors[b]) = 4

\* C8: from the hover-enter of a body until its next hover-exit, that body's
\* own label-bob timer is not running.
C8_HoveredBodyDoesNotBob ==
    \A b \in hovering : BobTimers(b) = {}

\* C9: a bob tick with the counter below 5 adds 1 to the counter (a counter
\* that reaches 5 becomes 10) and moves the ticking body's label up one step;
\* otherwise it subtracts 1 (a counter that reaches 5 becomes 0) and moves
\* the label down one step; it changes nothing else, and nothing else moves
\* a label or the counter.
C9_TickTransition ==
    [][(labelLoopInc' # labelLoopInc \/ labelY' # labelY)
          => /\ \E t \in intervals :
                   IF labelLoopInc < 5
                   THEN /\ labelLoopInc' =
                              (IF labelLoopInc + 1 = 5 THEN 10 ELSE labelLoopInc + 1)
                        /\ labelY' = [labelY EXCEPT ![t.body] = @ + 1]
                   ELSE /\ labelLoopInc' =
                              (IF labelLoopInc - 1 = 5 THEN 0 ELSE labelLoopInc - 1)
                        /\ labelY' = [labelY EXCEPT ![t.body] = @ - 1]
             /\ UNCHANGED <<database, started, pc, pending, actors, containers,
                            assets, loads, celestialBodies, enabled, intervals,
                            animationLoopIterval, timeouts, childBoxTimeout,
                            handlers, hovering, target, gearPlaying, log,
                            hoverExits>>]_vars

C9_Witness ==
    /\ labelLoopInc = 6
    /\ \E b \in Bodies : labelY[b] = 2
    /\ \E b \in Bodies : labelY[b] = -1

\* C10: the label-bob counter is always in 0..10 and never 5, with any number
\* of running bob timers.
C10_CounterRange ==
    labelLoopInc >= 0 /\ labelLoopInc <= 10 /\ labelLoopInc # 5

C10_Witness ==
    /\ labelLoopInc = 10
    /\ \E b, c \in Bodies : b # c /\ BobTimers(b) # {} /\ BobTimers(c) # {}
    /\ \E b \in Bodies : Cardinality(BobTimers(b)) = 2

\* The place of a counter value in the cycle 0 1 2 3 4 10 9 8 7 6.
Phase(c) == IF c < 5 THEN c ELSE 15 - c

\* C11: with exactly one bob timer running, every tick moves the counter to
\* the next of the ten places of the cycle 0 1 2 3 4 10 9 8 7 6 (and from the
\* last back to 0) and moves that timer's label up one step in the first five
\* places and down one step in the last five: ten ticks from counter 0 are
\* five up-steps then five down-steps, back to counter 0 and the same offset.
C11_PeriodTen ==
    [][(Cardinality(intervals) = 1 /\ labelLoopInc' # labelLoopInc)
          => \A t \in intervals :
                /\ Phase(labelLoopInc) \in 0..9
                /\ Phase(labelLoopInc') = (Phase(labelLoopInc) + 1) % 10
                /\ labelY'[t.body] =
                      labelY[t.body] + (IF Phase(labelLoopInc) < 5 THEN 1 ELSE -1)
                /\ intervals' = intervals]_vars

\* The last place of the cycle, reached by one timer alone from counter 0.
C11_Witness ==
    /\ Cardinality(intervals) = 1
    /\ Cardinality({b \in Bodies : database[b].name # ""}) = 1
    /\ hoverExits = 0 /\ hovering = {}
    /\ labelLoopInc = 6
    /\ \E t \in intervals : labelY[t.body] = 1

\* C12: a hover-exit leaves a shrink timeout pending whose handle is the one
\* in childBoxTimeout (the newest pending one), and when a shrink timeout
\* fires (3 time units later, unless a click cleared it) the popup model's
\* scale target becomes zero.
C12_ExitSchedulesShrink ==
    [][/\ (hoverExits' # hoverExits)
             => /\ timeouts' # <<>>
                /\ timeouts'[Len(timeouts')] = childBoxTimeout'
                /\ \A i \in DOMAIN timeouts : timeouts[i] # childBoxTimeout'
       /\ ShrinkTimeout => target'[PopupModel] = 0]_vars

UnnamedInert ==
    \A b \in Bodies :
        database[b].name = ""
            => BobTimers(b) = {} /\ b \notin handlers /\ labelY[b] = 0

\* C13: a body with an empty display name never has a label-bob timer nor
\* click or hover handlers, and its label offset never changes; a body with a
\* non-empty name gets its timer (the handle stored in the field) and its
\* handlers in the step that registers it.
C13_NameDecidesWiring ==
    /\ UnnamedInert
    /\ [][/\ UnnamedInert'
          /\ \A b \in Bodies :
                (/\ database[b].name # ""
                 /\ b \notin DOMAIN celestialBodies
                 /\ b \in DOMAIN celestialBodies')
                    => /\ b \in handlers'
                       /\ \E t \in intervals' \ intervals :
                             t.body = b /\ t.id = animationLoopIterval']_vars

C13_Witness ==
    /\ database["box_model_cloud"].name = ""
    /\ AllRegistered
    /\ "only_gear" \in handlers
    /\ labelLoopInc = 10
    /\ hoverExits = 1

\* C14: the gear-oscillation counter runs while the application runs: once
\* the gear body is built and its rotation is playing, the counter is
\* eventually moved off its initial value by a tick.
C14_GearCounterRuns ==
    ("only_gear" \in DOMAIN celestialBodies /\ gearPlaying) ~> (gearLoopInc # 0)

\* The body's five nodes are created in this step, so its createBody reaches
\* the find check in this step.
FindChecked(b) == Len(actors[b]) = 0 /\ Len(actors'[b]) >= Len(SceneNodes(b))

\* C15: when two constructions ask for the same asset path and both make the
\* find check before a load of that path has completed, both call loadGltf
\* for it: both are left awaiting a load and the path is loaded twice.
C15_NoInFlightDeduplication ==
    [][\A b1, b2 \in DOMAIN database :
          (/\ b1 # b2
           /\ Uri(b1) = Uri(b2)
           /\ FindChecked(b1) /\ FindChecked(b2)
           /\ \A i \in DOMAIN containers : Uri(b1) \notin containers[i])
              => /\ pc'[b1] = "loading" /\ pc'[b2] = "loading"
                 /\ Cardinality({i \in DOMAIN loads' : loads'[i] = Uri(b1)}) = 2]_vars

C15_Witness ==
    /\ Uri("gear") = Uri("gear.low")
    /\ loads = <<Uri("gear"), Uri("gear.low")>>
    /\ pc["gear"] = "done"
    /\ pc["gear.low"] = "loading"

\* C16: whenever a hover-enter or hover-exit callback runs, box_model_cloud
\* and only_gear are registered in celestialBodies, and whenever the
\* popup-shrink timeout or a click callback runs, popup_model is, whatever the
\* order in which the loads settle and whichever constructions fail.
C16_LookupsFindRegisteredBodies ==
    [][/\ (\E b \in Bodies : HoverEnter(b) \/ HoverExit(b))
            => {"box_model_cloud", "only_gear"} \subseteq DOMAIN celestialBodies
       /\ (ShrinkTimeout \/ \E b \in Bodies : Click(b))
            => "popup_model" \in DOMAIN celestialBodies]_vars

\* The sum of the label displacements of the bodies of S, in steps.
RECURSIVE LabelSum(_)
LabelSum(S) ==
    IF S = {} THEN 0
    ELSE LET b == CHOOSE x \in S : TRUE
         IN  labelY[b] + LabelSum(S \ {b})

\* C17: the label displacements of all bodies add up to the counter c when
\* c < 5 and to c - 5 when c > 5, however many bob timers run and however
\* ticks and hovers interleave; a step that stops or starts a timer changes
\* neither the counter nor any label offset.
C17_CounterIsLabelSum ==
    /\ [](LabelSum(Bodies) = IF labelLoopInc < Amplitude
                              THEN labelLoopInc
                              ELSE labelLoopInc - Amplitude)
    /\ [][intervals' # intervals
            => labelLoopInc' = labelLoopInc /\ labelY' = labelY]_vars

C17_Witness ==
    /\ Cardinality(intervals) >= 2
    /\ hoverExits >= 1
    /\ labelLoopInc = 8
    /\ labelY["box_model_cloud"] = 2
    /\ labelY["only_gear"] = 1

====
